---- MODULE Spec2Model ----
(***************************************************************************)
(* Array30 input-method core: InputState (src/src/state.rs), the key map   *)
(* (src/src/keymap.rs), the Dictionary lookups (src/src/dict.rs) and the   *)
(* InputEngine (src/src/input_engine.rs).                                  *)
(*                                                                         *)
(* A Rust String is a sequence of one-character strings.  Every key the    *)
(* engine stores in raw_keys or current_code is ASCII, so String::len()    *)
(* (bytes) is Len of the sequence.                                         *)
(***************************************************************************)
EXTENDS Integers, Sequences, FiniteSets, TLC

VARIABLES
  dict,          \* InputEngine.dict, fixed after construction
  state,         \* InputEngine.state, an InputState
  candidates,    \* InputEngine.candidates
  page_index,    \* InputEngine.page_index
  op,            \* the last call made on the engine
  result,        \* the value that call returned
  backspace_ret, \* what InputState::backspace returned within that call, if called
  window         \* the lengths of raw_keys and output this behaviour is explored to

vars == <<dict, state, candidates, page_index, op, result, backspace_ret, window>>

----------------------------------------------------------------------------
(* Bounds of the exploration *)

\* a behaviour is explored either to a long raw_keys log and a short output, or
\* to a short raw_keys log and a long output (lengths in characters)
MaxRaw == 6
MaxOut == 1
ShortRaw == 2
LongOut == 3

Windows == {[raw |-> MaxRaw, out |-> MaxOut], [raw |-> ShortRaw, out |-> LongOut]}

----------------------------------------------------------------------------
(* Keys *)

Marker == "'"
\* '\x08' and '\x7f'
BackspaceKeys == {"BS", "DEL"}
\* '\x1b'
EscapeKey == "ESC"
\* '\n', '\r', ' '
CommitKeys == {"LF", "CR", " "}
DigitKeys19 == {"1", "2", "3", "4", "5", "6", "7", "8", "9"}
LowerLetters == <<"a", "b", "c", "d", "e", "f", "g", "h", "i", "j", "k", "l", "m",
                  "n", "o", "p", "q", "r", "s", "t", "u", "v", "w", "x", "y", "z">>
UpperLetters == <<"A", "B", "C", "D", "E", "F", "G", "H", "I", "J", "K", "L", "M",
                  "N", "O", "P", "Q", "R", "S", "T", "U", "V", "W", "X", "Y", "Z">>

\* the keys fed to handle_key in the exploration
InputKeys == {"a", Marker, "BS", "ESC", " ", "4", "0", "!"}
\* the indices passed to select_candidate in the exploration
InputIndices == {0, 3, 9}

\* Array30Key::from_char: the Array30Key of the character (a letter key is named
\* by its upper-case letter), or "None"
from_char(c) ==
  IF \E i \in 1 .. 26 : c = LowerLetters[i] \/ c = UpperLetters[i]
    THEN UpperLetters[CHOOSE i \in 1 .. 26 : c = LowerLetters[i] \/ c = UpperLetters[i]]
    ELSE CASE c = "." -> "Period"
           [] c = "/" -> "Slash"
           [] c = ";" -> "Semicolon"
           [] c = "," -> "Comma"
           [] c = "'" -> "Slash"
           [] OTHER -> "None"

----------------------------------------------------------------------------
(* Dictionary *)

\* Dictionary::new
EmptyDict == [char_table |-> <<>>, phrase_table |-> <<>>]

\* a loaded dictionary (load_cin2_file, load_phrase_file): 12 characters for
\* "a", one of them also under a longer code that has a phrase entry too, and a
\* code with a phrase entry only.  A text is a string, i.e. a sequence of
\* characters.
LoadedDict ==
  [char_table |->
     (<<"a">> :> << <<"c1">>, <<"c2">>, <<"c3">>, <<"c4">>, <<"c5">>, <<"c6">>,
                    <<"c7">>, <<"c8">>, <<"c9">>, <<"c10">>, <<"c11">>, <<"c12">> >>)
     @@ (<<"a", "a">> :> << <<"c1">> >>),
   phrase_table |->
     (<<"a", "a">> :> << <<"p", "q">>, <<"r", "s">> >>)
     @@ (<<"a", "a", "a", "a">> :> << <<"w", "x">> >>)]

Dicts == {EmptyDict, LoadedDict}

\* Option<&[String]>
None == [some |-> FALSE, val |-> <<>>]
Some(v) == [some |-> TRUE, val |-> v]

\* Dictionary::lookup_chars
lookup_chars(d, code) ==
  IF code \in DOMAIN d.char_table THEN Some(d.char_table[code]) ELSE None

\* Dictionary::lookup_phrases
lookup_phrases(d, code) ==
  IF code \in DOMAIN d.phrase_table THEN Some(d.phrase_table[code]) ELSE None

----------------------------------------------------------------------------
(* InputState *)

\* InputState::new
new_state ==
  [raw_keys |-> <<>>, composing |-> <<>>, output |-> <<>>, mode |-> "Normal",
   current_code |-> <<>>, has_phrase_marker |-> FALSE]

\* InputState::clear_composing
clear_composing(s) ==
  [s EXCEPT !.raw_keys = <<>>, !.composing = <<>>, !.current_code = <<>>,
            !.has_phrase_marker = FALSE, !.mode = "Normal"]

\* InputState::clear_all
clear_all(s) == [clear_composing(s) EXCEPT !.output = <<>>]

\* InputState::add_key
add_key(s, key) == [s EXCEPT !.raw_keys = Append(@, key)]

\* InputState::set_phrase_mode
set_phrase_mode(s) ==
  add_key([s EXCEPT !.mode = "PhraseInput", !.has_phrase_marker = TRUE], Marker)

\* commit_composing that leaves the committed text in composing
commit_composing_keeps_text(s) ==
  IF s.composing # <<>>
    THEN [clear_composing([s EXCEPT !.output = @ \o s.composing])
            EXCEPT !.composing = s.composing]
    ELSE s

\* InputState::commit_composing
commit_composing(s) ==
  IF s.composing # <<>>
    THEN clear_composing([s EXCEPT !.output = @ \o s.composing])
    ELSE s

\* InputState::commit_direct
commit_direct(s, text) == [s EXCEPT !.output = @ \o text]

\* String::pop on a non-empty string
pop(str) == SubSeq(str, 1, Len(str) - 1)

\* backspace that keeps the phrase mode when the popped raw key is the marker
backspace_keeps_mode(s) ==
  IF s.current_code # <<>>
    THEN LET s1 == [s EXCEPT !.current_code = pop(@)]
         IN IF s1.raw_keys # <<>>
              THEN [st |-> [s1 EXCEPT !.raw_keys = pop(@)], ret |-> TRUE]
              ELSE [st |-> s1, ret |-> FALSE]
    ELSE [st |-> s, ret |-> FALSE]

\* backspace that pops raw_keys before it looks at current_code
backspace_raw_first(s) ==
  IF s.raw_keys # <<>>
    THEN LET c == s.raw_keys[Len(s.raw_keys)]
             s1 == [s EXCEPT !.raw_keys = pop(@)]
             s2 == IF c = Marker
                     THEN [s1 EXCEPT !.mode = "Normal", !.has_phrase_marker = FALSE]
                     ELSE s1
         IN IF s2.current_code # <<>>
              THEN [st |-> [s2 EXCEPT !.current_code = pop(@)], ret |-> TRUE]
              ELSE [st |-> s2, ret |-> FALSE]
    ELSE [st |-> s, ret |-> FALSE]

\* backspace that pops current_code and leaves raw_keys as it is
backspace_code_only(s) ==
  IF s.current_code # <<>>
    THEN [st |-> [s EXCEPT !.current_code = pop(@)], ret |-> TRUE]
    ELSE [st |-> s, ret |-> FALSE]

\* backspace that leaves the phrase flag set when it pops the marker
backspace_keeps_flag(s) ==
  IF s.current_code # <<>>
    THEN LET s1 == [s EXCEPT !.current_code = pop(@)]
         IN IF s1.raw_keys # <<>>
              THEN LET c == s1.raw_keys[Len(s1.raw_keys)]
                       s2 == [s1 EXCEPT !.raw_keys = pop(@)]
                   IN [st |-> IF c = Marker THEN [s2 EXCEPT !.mode = "Normal"] ELSE s2,
                       ret |-> TRUE]
              ELSE [st |-> s1, ret |-> FALSE]
    ELSE [st |-> s, ret |-> FALSE]

\* InputState::backspace: the state after the call and the value returned
backspace(s) ==
  IF s.current_code # <<>>
    THEN LET s1 == [s EXCEPT !.current_code = pop(@)]
         IN IF s1.raw_keys # <<>>
              THEN LET c == s1.raw_keys[Len(s1.raw_keys)]
                       s2 == [s1 EXCEPT !.raw_keys = pop(@)]
                   IN [st |-> IF c = Marker
                                THEN [s2 EXCEPT !.mode = "Normal",
                                                !.has_phrase_marker = FALSE]
                                ELSE s2,
                       ret |-> TRUE]
              ELSE [st |-> s1, ret |-> FALSE]
    ELSE [st |-> s, ret |-> FALSE]

----------------------------------------------------------------------------
(* InputEngine *)

\* InputEngine::new: page_size
page_size == 9

\* Candidate::char
char(text, code) == [text |-> text, code |-> code, is_phrase |-> FALSE]

\* Candidate::phrase
phrase(text, code) == [text |-> text, code |-> code, is_phrase |-> TRUE]

\* the engine's mutable fields as one value
Engine == [state |-> state, candidates |-> candidates, page_index |-> page_index]

\* InputEngine::new
new_engine == [state |-> new_state, candidates |-> <<>>, page_index |-> 0]

\* the candidates of a lookup result, built by make (Candidate::phrase or
\* Candidate::char)
phrase_candidates(found, code) ==
  IF found.some THEN [i \in 1 .. Len(found.val) |-> phrase(found.val[i], code)] ELSE <<>>

char_candidates(found, code) ==
  IF found.some THEN [i \in 1 .. Len(found.val) |-> char(found.val[i], code)] ELSE <<>>

\* update_candidates that appends the character entry to the phrase entry
update_candidates_merged(e) ==
  LET code == e.state.current_code
      e0 == [e EXCEPT !.candidates = <<>>, !.page_index = 0]
  IN IF code = <<>>
       THEN e0
       ELSE LET e1 == IF e0.state.mode = "PhraseInput"
                        THEN [e0 EXCEPT !.candidates =
                                @ \o phrase_candidates(lookup_phrases(dict, code), code)]
                        ELSE e0
            IN [e1 EXCEPT !.candidates =
                  @ \o char_candidates(lookup_chars(dict, code), code)]

\* update_candidates that consults the phrase table in every mode
update_candidates_any_mode(e) ==
  LET code == e.state.current_code
      e0 == [e EXCEPT !.candidates = <<>>, !.page_index = 0]
  IN IF code = <<>>
       THEN e0
       ELSE LET e1 == [e0 EXCEPT !.candidates =
                         @ \o phrase_candidates(lookup_phrases(dict, code), code)]
            IN IF e1.candidates = <<>>
                 THEN [e1 EXCEPT !.candidates =
                         @ \o char_candidates(lookup_chars(dict, code), code)]
                 ELSE e1

\* update_candidates that never consults the phrase table
update_candidates_chars_only(e) ==
  LET code == e.state.current_code
      e0 == [e EXCEPT !.candidates = <<>>, !.page_index = 0]
  IN IF code = <<>>
       THEN e0
       ELSE [e0 EXCEPT !.candidates =
               @ \o char_candidates(lookup_chars(dict, code), code)]

\* InputEngine::update_candidates
update_candidates(e) ==
  LET code == e.state.current_code
      e0 == [e EXCEPT !.candidates = <<>>, !.page_index = 0]
  IN IF code = <<>>
       THEN e0
       ELSE LET e1 == IF e0.state.mode = "PhraseInput"
                        THEN [e0 EXCEPT !.candidates =
                                @ \o phrase_candidates(lookup_phrases(dict, code), code)]
                        ELSE e0
            IN IF e1.candidates = <<>>
                 THEN [e1 EXCEPT !.candidates =
                         @ \o char_candidates(lookup_chars(dict, code), code)]
                 ELSE e1

\* select_candidate that takes the index as absolute, ignoring the page
select_candidate_no_page(e, index) ==
  LET actual_index == index
  IN IF actual_index < Len(e.candidates)
       THEN LET candidate == e.candidates[actual_index + 1]
                s1 == [e.state EXCEPT !.composing = candidate.text]
            IN [eng |-> [state |-> commit_composing(s1), candidates |-> <<>>,
                         page_index |-> 0],
                ret |-> TRUE]
       ELSE [eng |-> e, ret |-> FALSE]

\* select_candidate that goes back to the first page when the index is out of range
select_candidate_rewinds(e, index) ==
  LET actual_index == e.page_index * page_size + index
  IN IF actual_index < Len(e.candidates)
       THEN LET candidate == e.candidates[actual_index + 1]
                s1 == [e.state EXCEPT !.composing = candidate.text]
            IN [eng |-> [state |-> commit_composing(s1), candidates |-> <<>>,
                         page_index |-> 0],
                ret |-> TRUE]
       ELSE [eng |-> [e EXCEPT !.page_index = 0], ret |-> FALSE]

\* InputEngine::select_candidate: the engine after the call and the value returned
select_candidate(e, index) ==
  LET actual_index == e.page_index * page_size + index
  IN IF actual_index < Len(e.candidates)
       THEN LET candidate == e.candidates[actual_index + 1]
                s1 == [e.state EXCEPT !.composing = candidate.text]
            IN [eng |-> [state |-> commit_composing(s1), candidates |-> <<>>,
                         page_index |-> 0],
                ret |-> TRUE]
       ELSE [eng |-> e, ret |-> FALSE]

\* InputEngine::current_page_candidates
Min(a, b) == IF a < b THEN a ELSE b

current_page_candidates(e) ==
  LET start == e.page_index * page_size
      end == Min(start + page_size, Len(e.candidates))
  IN SubSeq(e.candidates, start + 1, end)

\* next_page that may step onto the page after the last one
next_page_past_end(e) ==
  LET total_pages == (Len(e.candidates) + page_size - 1) \div page_size
  IN IF e.page_index + 1 <= total_pages
       THEN [eng |-> [e EXCEPT !.page_index = @ + 1], ret |-> TRUE]
       ELSE [eng |-> e, ret |-> FALSE]

\* next_page that counts only the full pages
next_page_full_pages(e) ==
  LET total_pages == Len(e.candidates) \div page_size
  IN IF e.page_index + 1 < total_pages
       THEN [eng |-> [e EXCEPT !.page_index = @ + 1], ret |-> TRUE]
       ELSE [eng |-> e, ret |-> FALSE]

\* InputEngine::next_page
next_page(e) ==
  LET total_pages == (Len(e.candidates) + page_size - 1) \div page_size
  IN IF e.page_index + 1 < total_pages
       THEN [eng |-> [e EXCEPT !.page_index = @ + 1], ret |-> TRUE]
       ELSE [eng |-> e, ret |-> FALSE]

\* prev_page that reports success on the first page
prev_page_true_at_first(e) ==
  IF e.page_index > 0
    THEN [eng |-> [e EXCEPT !.page_index = @ - 1], ret |-> TRUE]
    ELSE [eng |-> e, ret |-> TRUE]

\* prev_page that aborts the entry when it is called on the first page
prev_page_aborts_at_first(e) ==
  IF e.page_index > 0
    THEN [eng |-> [e EXCEPT !.page_index = @ - 1], ret |-> TRUE]
    ELSE [eng |-> [e EXCEPT !.state = clear_composing(@)], ret |-> FALSE]

\* InputEngine::prev_page
prev_page(e) ==
  IF e.page_index > 0
    THEN [eng |-> [e EXCEPT !.page_index = @ - 1], ret |-> TRUE]
    ELSE [eng |-> e, ret |-> FALSE]

\* clear_output that empties the output and keeps the entry being composed
clear_output_keeps_entry(e) == [e EXCEPT !.state = [@ EXCEPT !.output = <<>>]]

\* InputEngine::clear_output
clear_output(e) == [e EXCEPT !.state = clear_all(@)]

\* the marker arm that switches to PhraseInput on an empty code as well
handle_marker_on_empty(e) ==
  IF Len(e.state.current_code) <= 4
    THEN [eng |-> update_candidates([e EXCEPT !.state = set_phrase_mode(@)]),
          ret |-> "NeedUpdate"]
    ELSE [eng |-> e, ret |-> "NeedUpdate"]

\* the marker arm that switches the mode without logging the marker in raw_keys
handle_marker_not_logged(e) ==
  IF Len(e.state.current_code) >= 1 /\ Len(e.state.current_code) <= 4
    THEN [eng |-> update_candidates(
                    [e EXCEPT !.state = [@ EXCEPT !.mode = "PhraseInput",
                                                  !.has_phrase_marker = TRUE]]),
          ret |-> "NeedUpdate"]
    ELSE [eng |-> e, ret |-> "NeedUpdate"]

\* the marker arm that empties the candidate list instead of looking the code up
handle_marker_clears_list(e) ==
  IF Len(e.state.current_code) >= 1 /\ Len(e.state.current_code) <= 4
    THEN [eng |-> [e EXCEPT !.state = set_phrase_mode(@), !.candidates = <<>>,
                            !.page_index = 0],
          ret |-> "NeedUpdate"]
    ELSE [eng |-> e, ret |-> "NeedUpdate"]

\* InputEngine::handle_key, the arm of the phrase marker
handle_marker(e) ==
  IF Len(e.state.current_code) >= 1 /\ Len(e.state.current_code) <= 4
    THEN [eng |-> update_candidates([e EXCEPT !.state = set_phrase_mode(@)]),
          ret |-> "NeedUpdate"]
    ELSE [eng |-> e, ret |-> "NeedUpdate"]

\* backspace that does not look the shortened code up again
handle_backspace_no_lookup(e) ==
  LET e1 == IF e.candidates # <<>>
              THEN [e EXCEPT !.candidates = <<>>, !.page_index = 0]
              ELSE e
      b == backspace(e1.state)
  IN [eng |-> [e1 EXCEPT !.state = b.st], ret |-> "NeedUpdate", removed |-> b.ret]

\* InputEngine::handle_key, the arm of backspace
handle_backspace(e) ==
  LET e1 == IF e.candidates # <<>>
              THEN [e EXCEPT !.candidates = <<>>, !.page_index = 0]
              ELSE e
      b == backspace(e1.state)
      e2 == [e1 EXCEPT !.state = b.st]
  IN [eng |-> IF b.ret THEN update_candidates(e2) ELSE e2, ret |-> "NeedUpdate",
      removed |-> b.ret]

\* Esc that clears the output as well
handle_escape_clear_all(e) ==
  [eng |-> [state |-> clear_all(e.state), candidates |-> <<>>, page_index |-> 0],
   ret |-> "NeedUpdate"]

\* Esc that leaves the candidate list and the page as they are
handle_escape_keeps_list(e) ==
  [eng |-> [e EXCEPT !.state = clear_composing(@)], ret |-> "NeedUpdate"]

\* InputEngine::handle_key, the arm of Esc
handle_escape(e) ==
  [eng |-> [state |-> clear_composing(e.state), candidates |-> <<>>, page_index |-> 0],
   ret |-> "NeedUpdate"]

\* Enter and space that select the first candidate of the whole list
handle_commit_first_of_list(e) ==
  IF e.candidates # <<>>
    THEN [eng |-> select_candidate([e EXCEPT !.page_index = 0], 0).eng,
          ret |-> "NeedUpdate"]
    ELSE IF e.state.current_code # <<>>
           THEN [eng |-> e, ret |-> "NeedUpdate"]
           ELSE [eng |-> e, ret |-> "NoChange"]

\* Enter and space that send a pending code without candidates to the output
handle_commit_sends_code(e) ==
  IF e.candidates # <<>>
    THEN [eng |-> select_candidate(e, 0).eng, ret |-> "NeedUpdate"]
    ELSE IF e.state.current_code # <<>>
           THEN [eng |-> [e EXCEPT !.state =
                           clear_composing(commit_direct(@, e.state.current_code))],
                 ret |-> "NeedUpdate"]
           ELSE [eng |-> e, ret |-> "NoChange"]

\* InputEngine::handle_key, the arm of Enter and space
handle_commit(e) ==
  IF e.candidates # <<>>
    THEN [eng |-> select_candidate(e, 0).eng, ret |-> "NeedUpdate"]
    ELSE IF e.state.current_code # <<>>
           THEN [eng |-> e, ret |-> "NeedUpdate"]
           ELSE [eng |-> e, ret |-> "NoChange"]

\* (key as usize) - ('1' as usize) for a digit '1'..'9'
digit_index(key) ==
  CASE key = "1" -> 0 [] key = "2" -> 1 [] key = "3" -> 2 [] key = "4" -> 3
    [] key = "5" -> 4 [] key = "6" -> 5 [] key = "7" -> 6 [] key = "8" -> 7
    [] key = "9" -> 8

\* InputEngine::handle_key, the arm of the digits '1'..'9'
handle_digit(e, key) ==
  IF e.candidates # <<>>
    THEN LET r == select_candidate(e, digit_index(key))
         IN IF r.ret THEN [eng |-> r.eng, ret |-> "Committed"]
                     ELSE [eng |-> r.eng, ret |-> "NeedUpdate"]
    ELSE [eng |-> [e EXCEPT !.state = commit_direct(@, <<key>>)], ret |-> "Committed"]

\* InputEngine::handle_key, the arm of '0'
handle_zero(e, key) ==
  IF e.candidates # <<>>
    THEN [eng |-> select_candidate(e, 9).eng, ret |-> "Committed"]
    ELSE [eng |-> [e EXCEPT !.state = commit_direct(@, <<key>>)], ret |-> "Committed"]

\* the mapped-key arm with the cap tested as <= 4
handle_mapped_off_by_one(e, c) ==
  LET e1 == IF e.candidates # <<>>
              THEN [e EXCEPT !.candidates = <<>>, !.page_index = 0]
              ELSE e
      s1 == add_key(e1.state, c)
      s2 == IF s1.mode = "PhraseInput"
              THEN IF Len(s1.current_code) <= 4
                     THEN [s1 EXCEPT !.current_code = Append(@, c)]
                     ELSE s1
              ELSE IF Len(s1.current_code) < 4
                     THEN [s1 EXCEPT !.current_code = Append(@, c)]
                     ELSE s1
  IN [eng |-> update_candidates([e1 EXCEPT !.state = s2]), ret |-> "NeedUpdate"]

\* the mapped-key arm that logs the key in raw_keys only when the code takes it
handle_mapped_logs_accepted(e, c) ==
  LET e1 == IF e.candidates # <<>>
              THEN [e EXCEPT !.candidates = <<>>, !.page_index = 0]
              ELSE e
      s2 == IF Len(e1.state.current_code) < 4
              THEN [add_key(e1.state, c) EXCEPT !.current_code = Append(@, c)]
              ELSE e1.state
  IN [eng |-> update_candidates([e1 EXCEPT !.state = s2]), ret |-> "NeedUpdate"]

\* the mapped-key arm that appends to current_code without logging the key
handle_mapped_not_logged(e, c) ==
  LET e1 == IF e.candidates # <<>>
              THEN [e EXCEPT !.candidates = <<>>, !.page_index = 0]
              ELSE e
      s1 == e1.state
      s2 == IF Len(s1.current_code) < 4
              THEN [s1 EXCEPT !.current_code = Append(@, c)]
              ELSE s1
  IN [eng |-> update_candidates([e1 EXCEPT !.state = s2]), ret |-> "NeedUpdate"]

\* InputEngine::handle_key, the arm of a key with an Array30Key
handle_mapped(e, c) ==
  LET e1 == IF e.candidates # <<>>
              THEN [e EXCEPT !.candidates = <<>>, !.page_index = 0]
              ELSE e
      s1 == add_key(e1.state, c)
      s2 == IF s1.mode = "PhraseInput"
              THEN IF Len(s1.current_code) < 4
                     THEN [s1 EXCEPT !.current_code = Append(@, c)]
                     ELSE s1
              ELSE IF Len(s1.current_code) < 4
                     THEN [s1 EXCEPT !.current_code = Append(@, c)]
                     ELSE s1
  IN [eng |-> update_candidates([e1 EXCEPT !.state = s2]), ret |-> "NeedUpdate"]

\* the last arm that commits the first candidate shown before the character
handle_other_commits_first(e, key) ==
  LET s1 == IF e.state.current_code # <<>>
              THEN IF e.candidates # <<>>
                     THEN select_candidate(e, 0).eng.state
                     ELSE clear_composing(e.state)
              ELSE e.state
  IN [eng |-> [e EXCEPT !.state = commit_direct(s1, <<key>>)], ret |-> "Committed"]

\* InputEngine::handle_key, the arm of every other character
handle_other(e, key) ==
  LET s1 == IF e.state.current_code # <<>> THEN clear_composing(e.state) ELSE e.state
  IN [eng |-> [e EXCEPT !.state = commit_direct(s1, <<key>>)], ret |-> "Committed"]

\* the match with the mapped-key arm tried before the marker arm
handle_key_mapped_first(e, key) ==
  IF key \in BackspaceKeys THEN handle_backspace(e)
  ELSE IF key = EscapeKey THEN handle_escape(e)
  ELSE IF key \in CommitKeys THEN handle_commit(e)
  ELSE IF key \in DigitKeys19 THEN handle_digit(e, key)
  ELSE IF key = "0" THEN handle_zero(e, key)
  ELSE IF from_char(key) # "None" THEN handle_mapped(e, key)
  ELSE IF key = Marker THEN handle_marker(e)
  ELSE handle_other(e, key)

\* InputEngine::handle_key: the match, its arms tried in the order of the source
handle_key(e, key) ==
  IF key = Marker THEN handle_marker(e)
  ELSE IF key \in BackspaceKeys THEN handle_backspace(e)
  ELSE IF key = EscapeKey THEN handle_escape(e)
  ELSE IF key \in CommitKeys THEN handle_commit(e)
  ELSE IF key \in DigitKeys19 THEN handle_digit(e, key)
  ELSE IF key = "0" THEN handle_zero(e, key)
  ELSE IF from_char(key) # "None" THEN handle_mapped(e, key)
  ELSE handle_other(e, key)

----------------------------------------------------------------------------
(* The engine as a state machine: one action per public operation *)

WithinBounds(e) ==
  /\ Len(e.state.raw_keys) <= window.raw
  /\ Len(e.state.output) <= window.out

Becomes(e) ==
  /\ WithinBounds(e)
  /\ state' = e.state
  /\ candidates' = e.candidates
  /\ page_index' = e.page_index
  /\ UNCHANGED <<dict, window>>

\* a call and a returned value as recorded in op, result and backspace_ret
Call(name, key, index) == [name |-> name, key |-> key, index |-> index]
NoKey == "-"
NoIndex == 0 - 1
Shown(b) == IF b THEN "true" ELSE "false"

Init ==
  /\ dict \in Dicts
  /\ window \in Windows
  /\ state = new_engine.state
  /\ candidates = new_engine.candidates
  /\ page_index = new_engine.page_index
  /\ op = Call("new", NoKey, NoIndex)
  /\ result = "()"
  /\ backspace_ret = "-"

HandleKey ==
  \E key \in InputKeys :
    LET r == handle_key(Engine, key)
    IN /\ Becomes(r.eng)
       /\ op' = Call("handle_key", key, NoIndex)
       /\ result' = r.ret
       /\ backspace_ret' = IF key \in BackspaceKeys THEN Shown(r.removed) ELSE "-"

SelectCandidate ==
  \E index \in InputIndices :
    LET r == select_candidate(Engine, index)
    IN /\ Becomes(r.eng)
       /\ op' = Call("select_candidate", NoKey, index)
       /\ result' = Shown(r.ret)
       /\ backspace_ret' = "-"

NextPage ==
  LET r == next_page(Engine)
  IN /\ Becomes(r.eng)
     /\ op' = Call("next_page", NoKey, NoIndex)
     /\ result' = Shown(r.ret)
     /\ backspace_ret' = "-"

PrevPage ==
  LET r == prev_page(Engine)
  IN /\ Becomes(r.eng)
     /\ op' = Call("prev_page", NoKey, NoIndex)
     /\ result' = Shown(r.ret)
     /\ backspace_ret' = "-"

ClearOutput ==
  /\ Becomes(clear_output(Engine))
  /\ op' = Call("clear_output", NoKey, NoIndex)
  /\ result' = "()"
  /\ backspace_ret' = "-"

Next == HandleKey \/ SelectCandidate \/ NextPage \/ PrevPage \/ ClearOutput

Spec == Init /\ [][Next]_vars

----------------------------------------------------------------------------
(* Vocabulary of the properties *)

IsPrefix(a, b) == Len(a) <= Len(b) /\ SubSeq(b, 1, Len(a)) = a

Last(str) == str[Len(str)]

\* the keys that reach the mapped-key arm of handle_key
MappedKeys ==
  {k \in InputKeys :
     /\ k # Marker
     /\ k \notin BackspaceKeys \cup {EscapeKey} \cup CommitKeys \cup DigitKeys19 \cup {"0"}
     /\ from_char(k) # "None"}

\* the step is a handle_key call on a key of K
KeyStep(K) == op'.name = "handle_key" /\ op'.key \in K

\* the step is a handle_key call that runs update_candidates: a mapped key, a
\* marker on a code of 1 to 4 symbols, or a backspace that removed a symbol
Recomputes ==
  \/ KeyStep(MappedKeys)
  \/ KeyStep({Marker}) /\ Len(state.current_code) >= 1 /\ Len(state.current_code) <= 4
  \/ KeyStep(BackspaceKeys) /\ backspace_ret' = "true"

\* the phrase table has a non-empty entry for the code
PhraseMatch(code) ==
  code \in DOMAIN dict.phrase_table /\ dict.phrase_table[code] # <<>>

\* the list made of the texts of an entry, each for the code, flagged is_phrase
ListOf(entry, code, is_phrase) ==
  [i \in 1 .. Len(entry) |-> [text |-> entry[i], code |-> code, is_phrase |-> is_phrase]]

\* the number of keys other than the marker in a raw key log
CodeKeys(raw) == Cardinality({i \in 1 .. Len(raw) : raw[i] # Marker})

----------------------------------------------------------------------------
(* C1 *)

\* C1: in every reachable state current_code holds at most 4 symbols, in Normal
\* mode and in PhraseInput mode alike.
C1_CodeAtMostFour == Len(state.current_code) <= 4

\* a fifth mapped key has been typed in PhraseInput mode on a full code
C1_Witness ==
  /\ op.name = "handle_key" /\ op.key \in MappedKeys
  /\ state.mode = "PhraseInput"
  /\ Len(state.current_code) = 4
  /\ CodeKeys(state.raw_keys) > 4

----------------------------------------------------------------------------
(* C2 *)

\* C2: after a step that recomputes the candidates, if the mode is PhraseInput
\* and the phrase table has a non-empty entry for current_code, the candidate
\* list is exactly that entry in the dictionary's order, every candidate flagged
\* is_phrase, and no character-table text is added.
C2_PhraseEntryOnly ==
  [][(Recomputes /\ state'.mode = "PhraseInput" /\ PhraseMatch(state'.current_code))
       => candidates' = ListOf(dict.phrase_table[state'.current_code],
                               state'.current_code, TRUE)]_vars

\* a phrase lookup has answered for a code that the character table knows too
C2_Witness ==
  /\ op.name = "handle_key" /\ op.key \in MappedKeys
  /\ state.mode = "PhraseInput"
  /\ PhraseMatch(state.current_code)
  /\ state.current_code \in DOMAIN dict.char_table
  /\ Len(candidates) = 2

----------------------------------------------------------------------------
(* C3 *)

\* C3: after a step that recomputes the candidates, if the mode is Normal, or
\* PhraseInput without a phrase match for current_code, the candidate list is
\* exactly the character table's entry for current_code in dictionary order,
\* none flagged is_phrase, and empty when there is no entry or the code is empty.
C3_CharEntryOtherwise ==
  [][(Recomputes /\ (state'.mode = "Normal" \/ ~PhraseMatch(state'.current_code)))
       => candidates' =
            IF state'.current_code # <<>> /\ state'.current_code \in DOMAIN dict.char_table
              THEN ListOf(dict.char_table[state'.current_code], state'.current_code, FALSE)
              ELSE <<>>]_vars

\* Normal mode on a code that has a phrase entry: only the character is listed
C3_Witness ==
  /\ op.name = "handle_key" /\ op.key \in MappedKeys
  /\ state.mode = "Normal"
  /\ PhraseMatch(state.current_code)
  /\ Len(candidates) = 1
  /\ ~candidates[1].is_phrase

----------------------------------------------------------------------------
(* C4 *)

\* C4: select_candidate(i) with page_index*9 + i < candidates.len() returns true,
\* appends exactly the text of candidates[page_index*9 + i] to output, and leaves
\* current_code, raw_keys and composing empty, the mode Normal, the candidate
\* list empty and page_index 0.
C4_SelectCommits ==
  [][(op'.name = "select_candidate" /\ page_index * 9 + op'.index < Len(candidates))
       => /\ result' = "true"
          /\ state'.output = state.output \o candidates[page_index * 9 + op'.index + 1].text
          /\ state'.current_code = <<>>
          /\ state'.raw_keys = <<>>
          /\ state'.composing = <<>>
          /\ state'.mode = "Normal"
          /\ candidates' = <<>>
          /\ page_index' = 0]_vars

\* select_candidate(0) on the second page has appended the tenth candidate to a
\* non-empty output
C4_Witness ==
  /\ op.name = "select_candidate" /\ op.index = 0
  /\ result = "true"
  /\ Len(state.output) = 2
  /\ Last(state.output) = "c10"

----------------------------------------------------------------------------
(* C5 *)

\* C5: select_candidate(i) with page_index*9 + i >= candidates.len() returns
\* false and leaves output, current_code, raw_keys, composing, mode, the
\* candidate list and page_index unchanged.
C5_SelectOutOfRange ==
  [][(op'.name = "select_candidate" /\ page_index * 9 + op'.index >= Len(candidates))
       => /\ result' = "false"
          /\ state' = state
          /\ candidates' = candidates
          /\ page_index' = page_index]_vars

\* an index that is in range on the first page was refused on the second page
C5_Witness ==
  /\ op.name = "select_candidate" /\ op.index = 3
  /\ result = "false"
  /\ page_index = 1
  /\ Len(candidates) = 12
  /\ state.output # <<>>

----------------------------------------------------------------------------
(* C6 *)

\* C6: a backspace that removes a symbol removes exactly one symbol from
\* current_code and from raw_keys exactly the matching symbol: the symbol popped
\* from raw_keys is the symbol popped from current_code.
C6_MatchingSymbolPopped ==
  [][(KeyStep(BackspaceKeys) /\ backspace_ret' = "true")
       => /\ state'.current_code = pop(state.current_code)
          /\ state'.raw_keys = pop(state.raw_keys)
          /\ Last(state.raw_keys) = Last(state.current_code)]_vars

----------------------------------------------------------------------------
(* C7 *)

\* C7: with an empty current_code, InputState.backspace() returns false and
\* changes nothing: raw_keys, mode, the phrase flag, composing and output keep
\* their values, even when raw_keys is non-empty.
C7_BackspaceOnEmptyCode ==
  [][(KeyStep(BackspaceKeys) /\ state.current_code = <<>>)
       => /\ backspace_ret' = "false"
          /\ state' = state]_vars

\* backspace has returned false while raw_keys still holds keys and the output
\* holds text
C7_Witness ==
  /\ op.name = "handle_key" /\ op.key \in BackspaceKeys
  /\ backspace_ret = "false"
  /\ state.raw_keys # <<>>
  /\ state.output # <<>>

----------------------------------------------------------------------------
(* C8 *)

\* C8: either the candidate list is empty and page_index is 0, or
\* page_index*9 < candidates.len(); so current_page_candidates() slices within
\* bounds and returns between 1 and 9 candidates when the list is non-empty.
C8_PageWithinList ==
  LET start == page_index * page_size
      end == Min(start + page_size, Len(candidates))
  IN /\ \/ candidates = <<>> /\ page_index = 0
        \/ page_index * 9 < Len(candidates)
     /\ start <= end /\ end <= Len(candidates)
     /\ candidates # <<>> =>
          /\ Len(current_page_candidates(Engine)) >= 1
          /\ Len(current_page_candidates(Engine)) <= 9

\* next_page was refused on the last, partly filled page
C8_Witness ==
  /\ op.name = "next_page"
  /\ result = "false"
  /\ page_index = 1
  /\ Len(current_page_candidates(Engine)) = 3

----------------------------------------------------------------------------
(* C9 *)

\* C9: mode == PhraseInput implies that raw_keys contains at least one phrase
\* marker.
C9_PhraseModeHasMarker ==
  state.mode = "PhraseInput" => \E i \in 1 .. Len(state.raw_keys) : state.raw_keys[i] = Marker

\* a backspace removed a key typed after the marker and the mode is still
\* PhraseInput
C9_Witness ==
  /\ op.name = "handle_key" /\ op.key \in BackspaceKeys
  /\ backspace_ret = "true"
  /\ state.mode = "PhraseInput"

----------------------------------------------------------------------------
(* C10 *)

\* C10: output is append-only: for every operation other than clear_output the
\* output before the operation is a prefix of the output after it.
C10_OutputAppendOnly ==
  [][op'.name # "clear_output" => IsPrefix(state.output, state'.output)]_vars

\* an unmapped key has appended its character to a non-empty output
C10_Witness ==
  /\ op.name = "handle_key" /\ op.key = "!"
  /\ result = "Committed"
  /\ Len(state.output) = 2
  /\ Last(state.output) = "!"

----------------------------------------------------------------------------
(* Vocabulary of the properties on the arms of handle_key *)

\* the digit keys, and the page-relative index a digit stands for
DigitKeys == DigitKeys19 \cup {"0"}

SlotOf(key) == IF key = "0" THEN 9 ELSE digit_index(key)

\* the keys that reach the last arm of handle_key
OtherKeys ==
  {k \in InputKeys :
     /\ k # Marker
     /\ k \notin BackspaceKeys \cup {EscapeKey} \cup CommitKeys \cup DigitKeys
     /\ from_char(k) = "None"}

\* the candidate list a lookup of the code in the mode amounts to
Lookup(mode, code) ==
  IF code = <<>> THEN <<>>
  ELSE IF mode = "PhraseInput" /\ PhraseMatch(code)
    THEN ListOf(dict.phrase_table[code], code, TRUE)
  ELSE IF code \in DOMAIN dict.char_table
    THEN ListOf(dict.char_table[code], code, FALSE)
  ELSE <<>>

\* the step changes no field of the engine
EngineUnchanged ==
  state' = state /\ candidates' = candidates /\ page_index' = page_index

----------------------------------------------------------------------------
(* C11 *)

\* C11: a digit key '1'..'9' or '0' handled while the candidate list is
\* non-empty selects the page-relative index digit-1 ('0' meaning 9); it returns
\* Committed if the selection succeeds, and NeedUpdate, changing no state, if
\* the index is out of range.
C11_DigitSelects ==
  [][(KeyStep(DigitKeys) /\ candidates # <<>>)
       => IF page_index * 9 + SlotOf(op'.key) < Len(candidates)
            THEN /\ result' = "Committed"
                 /\ state'.output =
                      state.output \o candidates[page_index * 9 + SlotOf(op'.key) + 1].text
            ELSE /\ result' = "NeedUpdate"
                 /\ EngineUnchanged]_vars

----------------------------------------------------------------------------
(* C12 *)

\* C12: whenever a digit key commits a candidate, the committed candidate is one
\* of those current_page_candidates() returned just before the key.
C12_DigitCommitsFromShownPage ==
  [][(KeyStep(DigitKeys) /\ candidates # <<>> /\ state'.output # state.output)
       => \E i \in 1 .. Len(current_page_candidates(Engine)) :
            state'.output = state.output \o current_page_candidates(Engine)[i].text]_vars

----------------------------------------------------------------------------
(* C13 *)

\* C13: with an empty current_code, handle_key on a digit appends exactly that
\* digit to output, leaves current_code empty and returns Committed.
C13_DigitLiteralOnEmptyCode ==
  [][(KeyStep(DigitKeys) /\ state.current_code = <<>>)
       => /\ state'.output = state.output \o <<op'.key>>
          /\ state'.current_code = <<>>
          /\ result' = "Committed"]_vars

----------------------------------------------------------------------------
(* C14 *)

\* C14 as stated: a commit key handled while the candidate list is non-empty
\* appends the text of the first candidate of the list, candidates[0], to output
\* and empties current_code, whatever page is shown.
C14_CommitKeyTakesFirstOfList ==
  [][(KeyStep(CommitKeys) /\ candidates # <<>>)
       => /\ state'.output = state.output \o candidates[1].text
          /\ state'.current_code = <<>>]_vars

\* C14 as amended: a commit key handled while the candidate list is non-empty
\* appends the text of the first candidate of the page shown,
\* candidates[page_index*9], to output and empties current_code.
C14_CommitKeyTakesFirstOfPage ==
  [][(KeyStep(CommitKeys) /\ candidates # <<>>)
       => /\ state'.output = state.output \o candidates[page_index * 9 + 1].text
          /\ state'.current_code = <<>>]_vars

\* a commit key on the second page has appended the tenth candidate
C14_Witness ==
  /\ op.name = "handle_key" /\ op.key \in CommitKeys
  /\ result = "NeedUpdate"
  /\ state.output # <<>>
  /\ Last(state.output) = "c10"
  /\ state.current_code = <<>>

----------------------------------------------------------------------------
(* C15 *)

----------------------------------------------------------------------------
(* C16 *)

\* C16: Escape leaves raw_keys, composing and current_code empty, the mode
\* Normal, the phrase flag false, the candidate list empty and page_index 0,
\* leaves output unchanged, and returns NeedUpdate.
C16_EscapeAborts ==
  [][KeyStep({EscapeKey})
       => /\ state'.raw_keys = <<>>
          /\ state'.composing = <<>>
          /\ state'.current_code = <<>>
          /\ state'.mode = "Normal"
          /\ state'.has_phrase_marker = FALSE
          /\ candidates' = <<>>
          /\ page_index' = 0
          /\ state'.output = state.output
          /\ result' = "NeedUpdate"]_vars

\* Escape has been handled with text in the output
C16_Witness ==
  /\ op.name = "handle_key" /\ op.key = EscapeKey
  /\ result = "NeedUpdate"
  /\ state.raw_keys = <<>>
  /\ candidates = <<>>
  /\ Len(state.output) = 2

----------------------------------------------------------------------------
(* C17 *)

\* C17: after handle_key of backspace page_index is 0 and the candidate list is
\* the lookup of the resulting mode and current_code when a symbol was removed,
\* and empty when nothing was removed or the code became empty; output is
\* unchanged and the result is NeedUpdate.
C17_BackspaceRefreshesList ==
  [][KeyStep(BackspaceKeys)
       => /\ page_index' = 0
          /\ candidates' = IF backspace_ret' = "true"
                             THEN Lookup(state'.mode, state'.current_code)
                             ELSE <<>>
          /\ state'.current_code = <<>> => candidates' = <<>>
          /\ state'.output = state.output
          /\ result' = "NeedUpdate"]_vars

\* a backspace has shortened the code to one that has twelve candidates
C17_Witness ==
  /\ op.name = "handle_key" /\ op.key \in BackspaceKeys
  /\ backspace_ret = "true"
  /\ Len(candidates) = 12
  /\ page_index = 0

----------------------------------------------------------------------------
(* C18 *)

\* C18: a mapped key resets page_index to 0, appends the symbol to raw_keys, and
\* to current_code when that has fewer than 4 symbols (leaving it unchanged when
\* it has 4, in either mode), looks the resulting code up, leaves output
\* unchanged and returns NeedUpdate.
C18_MappedKey ==
  [][KeyStep(MappedKeys)
       => /\ page_index' = 0
          /\ state'.raw_keys = Append(state.raw_keys, op'.key)
          /\ state'.current_code = IF Len(state.current_code) < 4
                                     THEN Append(state.current_code, op'.key)
                                     ELSE state.current_code
          /\ state'.mode = state.mode
          /\ candidates' = Lookup(state'.mode, state'.current_code)
          /\ state'.output = state.output
          /\ result' = "NeedUpdate"]_vars

\* a fifth mapped key in Normal mode was logged in raw_keys and left the full
\* code as it was
C18_Witness ==
  /\ op.name = "handle_key" /\ op.key \in MappedKeys
  /\ result = "NeedUpdate"
  /\ state.mode = "Normal"
  /\ Len(state.current_code) = 4
  /\ Len(state.raw_keys) = 5
  /\ page_index = 0

----------------------------------------------------------------------------
(* C19 *)

----------------------------------------------------------------------------
(* C20 *)

\* C20: a non-empty candidate list implies a non-empty current_code, and every
\* candidate's code field equals current_code.
C20_CandidatesBelongToCode ==
  candidates # <<>> =>
    /\ state.current_code # <<>>
    /\ \A i \in 1 .. Len(candidates) : candidates[i].code = state.current_code

----------------------------------------------------------------------------
(* C21 *)

\* C21: the phrase marker key handled while current_code is empty is silently
\* ignored: no component of the state changes (mode, raw_keys, candidates and
\* page_index keep their values) and the result is still NeedUpdate.
C21_MarkerOnEmptyCodeIgnored ==
  [][(KeyStep({Marker}) /\ state.current_code = <<>>)
       => /\ EngineUnchanged
          /\ result' = "NeedUpdate"]_vars

\* the marker was pressed on an empty code after an earlier marker: the log still
\* holds exactly one marker
C21_Witness ==
  /\ op.name = "handle_key" /\ op.key = Marker
  /\ result = "NeedUpdate"
  /\ state.current_code = <<>>
  /\ state.mode = "PhraseInput"
  /\ Cardinality({i \in 1 .. Len(state.raw_keys) : state.raw_keys[i] = Marker}) = 1

----------------------------------------------------------------------------
(* C22 *)

\* C22: the phrase marker key handled while 1 <= current_code.len() <= 4 sets
\* the mode to PhraseInput and the phrase flag to true, appends exactly one
\* marker to raw_keys, leaves current_code, composing and output unchanged, and
\* returns NeedUpdate.
C22_MarkerAccepted ==
  [][(KeyStep({Marker}) /\ Len(state.current_code) >= 1 /\ Len(state.current_code) <= 4)
       => /\ state'.mode = "PhraseInput"
          /\ state'.has_phrase_marker = TRUE
          /\ state'.raw_keys = Append(state.raw_keys, Marker)
          /\ state'.current_code = state.current_code
          /\ state'.composing = state.composing
          /\ state'.output = state.output
          /\ result' = "NeedUpdate"]_vars

\* the marker was accepted on a full code of four symbols
C22_Witness ==
  /\ op.name = "handle_key" /\ op.key = Marker
  /\ result = "NeedUpdate"
  /\ state.mode = "PhraseInput"
  /\ Len(state.current_code) = 4
  /\ Last(state.raw_keys) = Marker
  /\ Len(state.raw_keys) = 5

----------------------------------------------------------------------------
(* C23 *)

\* C23 as stated: immediately after an accepted phrase marker key (one pressed
\* while 1 <= current_code.len() <= 4) the recomputed candidate list is empty,
\* for every dictionary and every code.
C23_ListEmptyAfterMarker ==
  [][(KeyStep({Marker}) /\ Len(state.current_code) >= 1 /\ Len(state.current_code) <= 4)
       => candidates' = <<>>]_vars

\* C23 as amended: immediately after an accepted phrase marker key the candidate
\* list is the lookup of the unchanged current_code in PhraseInput mode (the
\* phrase entry of the code if it has a non-empty one, otherwise its character
\* entry, and empty only when the code has neither) and page_index is 0.
C23_MarkerLooksCodeUp ==
  [][(KeyStep({Marker}) /\ Len(state.current_code) >= 1 /\ Len(state.current_code) <= 4)
       => /\ candidates' = Lookup("PhraseInput", state.current_code)
          /\ page_index' = 0]_vars

\* the marker was accepted on a code with a phrase entry, and the phrases of the
\* code are listed
C23_Witness ==
  /\ op.name = "handle_key" /\ op.key = Marker
  /\ state.raw_keys # <<>> /\ Last(state.raw_keys) = Marker
  /\ state.mode = "PhraseInput"
  /\ PhraseMatch(state.current_code)
  /\ Len(candidates) = 2
  /\ candidates[1].is_phrase

----------------------------------------------------------------------------
(* C24 *)

\* C24: letter keys are case-insensitive: for every letter and every reachable
\* state, handling the upper-case letter and handling the lower-case letter
\* produce the same current_code and therefore the same candidate list.
C24_LettersCaseInsensitive ==
  \A i \in 1 .. 26 :
    LET upper == handle_key(Engine, UpperLetters[i]).eng
        lower == handle_key(Engine, LowerLetters[i]).eng
    IN /\ upper.state.current_code = lower.state.current_code
       /\ upper.candidates = lower.candidates

----------------------------------------------------------------------------
(* C25 *)

\* C25: in every reachable state current_code never contains the apostrophe: the
\* phrase marker is recorded only in raw_keys, because the marker arm of
\* handle_key is tried before the mapped-key arm although the key map gives the
\* apostrophe a code symbol.
C25_NoMarkerInCode ==
  /\ from_char(Marker) # "None"
  /\ \A i \in 1 .. Len(state.current_code) : state.current_code[i] # Marker
  /\ \A i \in 1 .. Len(state.composing) : state.composing[i] # Marker
  /\ \A i \in 1 .. Len(state.output) : state.output[i] # Marker

\* the marker key was accepted: it is the last key of raw_keys and the code it
\* was pressed on is as it was
C25_Witness ==
  /\ op.name = "handle_key" /\ op.key = Marker
  /\ state.raw_keys # <<>> /\ Last(state.raw_keys) = Marker
  /\ Len(state.current_code) = Len(state.raw_keys) - 1
  /\ state.current_code # <<>>

----------------------------------------------------------------------------
(* C26 *)

\* the number of pages of n candidates, ceil(n / 9)
Pages(n) == IF n % 9 = 0 THEN n \div 9 ELSE n \div 9 + 1

\* C26: next_page() advances page_index by exactly one and returns true iff a
\* further page exists, i.e. iff page_index + 1 < ceil(candidates.len() / 9);
\* otherwise it returns false and leaves page_index unchanged.  With 12
\* candidates the first call moves from page 0 to page 1, whose page is
\* candidates[9..12], and a second call returns false with page_index still 1.
C26_NextPage ==
  [][op'.name = "next_page"
       => /\ IF page_index + 1 < Pages(Len(candidates))
               THEN result' = "true" /\ page_index' = page_index + 1
               ELSE result' = "false" /\ page_index' = page_index
          /\ (Len(candidates) = 12 /\ page_index = 0)
               => /\ result' = "true" /\ page_index' = 1
                  /\ current_page_candidates(Engine') = SubSeq(candidates, 10, 12)
          /\ (Len(candidates) = 12 /\ page_index = 1)
               => result' = "false" /\ page_index' = 1]_vars

\* next_page has moved to the second page of twelve candidates
C26_Witness ==
  /\ op.name = "next_page"
  /\ result = "true"
  /\ page_index = 1
  /\ Len(candidates) = 12
  /\ current_page_candidates(Engine) = SubSeq(candidates, 10, 12)

----------------------------------------------------------------------------
(* C27 *)

\* C27: prev_page() decrements page_index by exactly one and returns true when
\* page_index > 0, and at page_index 0 returns false and leaves page_index at 0;
\* after any next_page() that returned true, prev_page() restores the previous
\* page_index.
C27_PrevPage ==
  [][/\ op'.name = "prev_page"
          => IF page_index > 0
               THEN result' = "true" /\ page_index' = page_index - 1
               ELSE result' = "false" /\ page_index' = 0
     /\ next_page(Engine).ret
          => /\ prev_page(next_page(Engine).eng).ret
             /\ prev_page(next_page(Engine).eng).eng.page_index = page_index]_vars

\* prev_page has gone back from the second page to the first
C27_Witness ==
  /\ op.name = "prev_page"
  /\ result = "true"
  /\ page_index = 0
  /\ next_page(Engine).ret

----------------------------------------------------------------------------
(* C28 *)

\* C28: paging is a pure view: next_page() and prev_page(), whether they return
\* true or false, leave the candidate list and every InputState field (raw_keys,
\* current_code, composing, output, mode, phrase flag) unchanged.
C28_PagingIsView ==
  [][op'.name \in {"next_page", "prev_page"}
       => /\ candidates' = candidates
          /\ state' = state]_vars

\* prev_page was refused on the first page of a pending entry in PhraseInput
\* mode, with text in the output
C28_Witness ==
  /\ op.name = "prev_page"
  /\ result = "false"
  /\ candidates # <<>>
  /\ state.current_code # <<>>
  /\ state.mode = "PhraseInput"
  /\ state.output # <<>>

----------------------------------------------------------------------------
(* The engine over the dictionary of the unit tests *)

\* the lengths of raw_keys and output the test engine is explored to
TestRaw == 5
TestOut == 2

\* tests::create_test_dict: the character "ce" (測) under "abc" and the phrase
\* "ce shi" (測試) under "abcd"
create_test_dict ==
  [char_table |-> (<<"a", "b", "c">> :> << <<"ce">> >>),
   phrase_table |-> (<<"a", "b", "c", "d">> :> << <<"ce", "shi">> >>)]

\* the keys fed to handle_key of the test engine
TestKeys == {"a", "b", "c", "d", Marker}

TestInit ==
  /\ dict = create_test_dict
  /\ window = [raw |-> TestRaw, out |-> TestOut]
  /\ state = new_engine.state
  /\ candidates = new_engine.candidates
  /\ page_index = new_engine.page_index
  /\ op = Call("new", NoKey, NoIndex)
  /\ result = "()"
  /\ backspace_ret = "-"

TestHandleKey ==
  \E key \in TestKeys :
    LET r == handle_key(Engine, key)
    IN /\ Becomes(r.eng)
       /\ op' = Call("handle_key", key, NoIndex)
       /\ result' = r.ret
       /\ backspace_ret' = "-"

TestNext == TestHandleKey \/ SelectCandidate \/ ClearOutput

TestSpec == TestInit /\ [][TestNext]_vars

----------------------------------------------------------------------------
(* C29 *)

\* C29: with a dictionary whose phrase table maps "abcd" to the phrase 測試 and
\* which has no character entry for "abcd", a fresh engine fed the keys a, ', b,
\* c, d is in PhraseInput mode after the ' key, and after the three following
\* keys has current_code "abcd" and a candidate list equal to that phrase.  (No
\* key of the exploration removes a key from raw_keys, so raw_keys is the
\* sequence of keys fed since the entry began.)
C29_PhraseScenario ==
  /\ ~lookup_chars(dict, <<"a", "b", "c", "d">>).some
  /\ lookup_phrases(dict, <<"a", "b", "c", "d">>) = Some(<< <<"ce", "shi">> >>)
  /\ state.raw_keys = <<"a", Marker>> => state.mode = "PhraseInput"
  /\ \A n \in 2 .. 5 :
       state.raw_keys = SubSeq(<<"a", Marker, "b", "c", "d">>, 1, n)
         => /\ state.mode = "PhraseInput"
            /\ state.current_code = SubSeq(<<"a", "b", "c", "d">>, 1, n - 1)
  /\ (state.raw_keys = <<"a", Marker, "b", "c", "d">> /\ op.name = "handle_key")
       => /\ state.current_code = <<"a", "b", "c", "d">>
          /\ candidates = << phrase(<<"ce", "shi">>, <<"a", "b", "c", "d">>) >>

\* the fifth key of the scenario has been handled on a fresh engine
C29_Witness ==
  /\ op.name = "handle_key" /\ op.key = "d"
  /\ state.raw_keys = <<"a", Marker, "b", "c", "d">>
  /\ state.output = <<>>
  /\ Len(candidates) = 1
  /\ candidates[1].is_phrase

----------------------------------------------------------------------------
(* C30 *)

\* C30: clear_output() empties output and also aborts the current entry
\* (raw_keys, composing and current_code empty, mode Normal, phrase flag false);
\* it is the only engine operation after which a previously non-empty output is
\* empty.
C30_ClearOutput ==
  [][/\ op'.name = "clear_output"
          => /\ state'.output = <<>>
             /\ state'.raw_keys = <<>>
             /\ state'.composing = <<>>
             /\ state'.current_code = <<>>
             /\ state'.mode = "Normal"
             /\ state'.has_phrase_marker = FALSE
     /\ (state.output # <<>> /\ state'.output = <<>>)
          => op'.name = "clear_output"]_vars

\* clear_output was called on the second page of a pending entry: the entry is
\* gone and the output is empty
C30_Witness ==
  /\ op.name = "clear_output"
  /\ state = new_state
  /\ Len(candidates) = 12
  /\ page_index = 1

----------------------------------------------------------------------------
(* C31 *)

\* C31: in every state reachable through the engine, backspace pops
\* current_code and raw_keys in lockstep: either it removes exactly the last
\* symbol of each and returns true, or it removes nothing from either and
\* returns false; it never shortens one of the two without the other.
C31_BackspaceLockstep ==
  [][KeyStep(BackspaceKeys)
       => \/ /\ backspace_ret' = "true"
             /\ state.current_code # <<>> /\ state.raw_keys # <<>>
             /\ state'.current_code = pop(state.current_code)
             /\ state'.raw_keys = pop(state.raw_keys)
          \/ /\ backspace_ret' = "false"
             /\ state'.current_code = state.current_code
             /\ state'.raw_keys = state.raw_keys]_vars

\* a backspace has removed the last symbol of the code and the last key of a
\* longer raw_keys log
C31_Witness ==
  /\ op.name = "handle_key" /\ op.key \in BackspaceKeys
  /\ backspace_ret = "true"
  /\ Len(state.current_code) = 3
  /\ Len(state.raw_keys) = 5

----------------------------------------------------------------------------
(* C32 *)

\* C32: in every reachable state the mode is Normal whenever current_code is
\* empty: PhraseInput is only ever held together with a non-empty code.
C32_EmptyCodeIsNormal ==
  state.current_code = <<>> => state.mode = "Normal"

----------------------------------------------------------------------------
(* C33 *)

\* the raw key log without its phrase markers
RECURSIVE WithoutMarkers(_)
WithoutMarkers(raw) ==
  IF raw = <<>> THEN <<>>
  ELSE IF raw[1] = Marker THEN WithoutMarkers(Tail(raw))
  ELSE <<raw[1]>> \o WithoutMarkers(Tail(raw))

\* C33: in every reachable state current_code equals raw_keys with the phrase
\* marker symbols removed, i.e. the code and the raw keystroke log never
\* desynchronise.
C33_CodeIsRawWithoutMarkers ==
  state.current_code = WithoutMarkers(state.raw_keys)

----------------------------------------------------------------------------
(* C34 *)

\* C34: handle_key's result tracks commits exactly: it returns Committed if and
\* only if the call appended at least one character to output; a call that
\* returns NeedUpdate or NoChange leaves output unchanged, and a call that
\* returns Committed has changed output.
C34_ResultTracksCommits ==
  [][op'.name = "handle_key"
       => /\ result' = "Committed"
               <=> (IsPrefix(state.output, state'.output)
                      /\ Len(state'.output) > Len(state.output))
          /\ result' \in {"NeedUpdate", "NoChange"} => state'.output = state.output
          /\ result' = "Committed" => state'.output # state.output]_vars

----------------------------------------------------------------------------
(* C35 *)

\* C35: in every reachable state raw_keys is at least as long as current_code,
\* so backspace returns true exactly when current_code is non-empty and never
\* pops current_code while finding raw_keys empty.
C35_RawAtLeastCode ==
  /\ Len(state.raw_keys) >= Len(state.current_code)
  /\ backspace(state).ret <=> state.current_code # <<>>
  /\ state.current_code # <<>> => state.raw_keys # <<>>

\* a backspace has returned true on a log longer than the code and left one
\* symbol in the code
C35_Witness ==
  /\ op.name = "handle_key" /\ op.key \in BackspaceKeys
  /\ backspace_ret = "true"
  /\ Len(state.current_code) = 1
  /\ Len(state.raw_keys) > Len(state.current_code)
  /\ backspace(state).ret

----------------------------------------------------------------------------
(* C36 *)

\* C36: in every reachable state the phrase flag has_phrase_marker is true
\* exactly when the mode is PhraseInput.
C36_FlagIffPhraseInput ==
  state.has_phrase_marker <=> state.mode = "PhraseInput"

\* a backspace has popped the marker and left keys in raw_keys: mode and flag
\* are both reset
C36_Witness ==
  /\ op.name = "handle_key" /\ op.key \in BackspaceKeys
  /\ backspace_ret = "true"
  /\ state.mode = "Normal"
  /\ ~state.has_phrase_marker
  /\ Len(state.raw_keys) > Len(state.current_code)
  /\ \A i \in 1 .. Len(state.raw_keys) : state.raw_keys[i] # Marker

----------------------------------------------------------------------------
(* C37 *)

\* C37: composing is empty in every state observable between engine operations:
\* a selected candidate's text is staged in composing and committed within the
\* same select_candidate call, so no handle_key, select_candidate, paging or
\* clear_output call returns with a non-empty composing buffer.
C37_ComposingEmpty ==
  state.composing = <<>>

\* select_candidate(3) has committed the fourth candidate and returned
C37_Witness ==
  /\ op.name = "select_candidate" /\ op.index = 3
  /\ result = "true"
  /\ state.output # <<>> /\ Last(state.output) = "c4"
  /\ state.composing = <<>>

====
